---- MODULE Spec2Model ----
(***************************************************************************)
(* A model of proxy_checker.py: ProgressReporter and ProxyTester.          *)
(*                                                                         *)
(* Strings are sequences of one-character strings, so that parsing,        *)
(* trimming, formatting and sorting are computed character by character.   *)
(* The program runs on one asyncio event loop: a coroutine runs alone      *)
(* between two awaits that suspend it, which the variable "running"        *)
(* records.                                                                *)
(***************************************************************************)
EXTENDS Integers, Sequences, FiniteSets, TLC

(***************************************************************************)
(* Characters and strings                                                  *)
(***************************************************************************)

\* The characters of the model, in code point order.
Chars == << "\n", "\r", " ", "#", ".", "/", "0", "1", "2", "3", "4", "5", "6", "7", "8", "9",
            ":", "H", "a", "c", "h", "k", "o", "p", "s", "t" >>

ord(c) == CHOOSE i \in 1..Len(Chars) : Chars[i] = c

Whitespace == {" ", "\n", "\r"}

DigitChars == <<"0", "1", "2", "3", "4", "5", "6", "7", "8", "9">>

Digits == {DigitChars[i] : i \in 1..Len(DigitChars)}

Letters == {"H", "a", "c", "h", "k", "o", "p", "s", "t"}

isdigit(s) == Len(s) > 0 /\ \A i \in 1..Len(s) : s[i] \in Digits

DigitValue(c) == (CHOOSE i \in 1..Len(DigitChars) : DigitChars[i] = c) - 1

\* int(s) for a string of digits
int(s) == LET value[k \in 0..Len(s)] ==
                  IF k = 0 THEN 0 ELSE value[k - 1] * 10 + DigitValue(s[k])
          IN  value[Len(s)]

\* str(n) for n >= 0
RECURSIVE str(_)
str(n) == IF n < 10 THEN <<DigitChars[n + 1]>>
          ELSE str(n \div 10) \o <<DigitChars[(n % 10) + 1]>>

\* F(e), the expression e being evaluated once.
let(e, F(_)) == CHOOSE r \in {F(v) : v \in {e}} : TRUE

\* The function f of domain 1..n, as a tuple.
tuple(f) == SubSeq(f, 1, Len(f))

lower(s) == tuple([i \in 1..Len(s) |-> IF s[i] = "H" THEN "h" ELSE s[i]])

\* s.strip()
strip(s) ==
    let({i \in 1..Len(s) : s[i] \notin Whitespace}, LAMBDA solid :
        IF solid = {} THEN <<>>
        ELSE SubSeq(s, CHOOSE i \in solid : \A j \in solid : i <= j,
                       CHOOSE i \in solid : \A j \in solid : i >= j))

\* s.find(c) + 1: the first position of character c in s, 0 when absent.
find(s, c) == IF \E i \in 1..Len(s) : s[i] = c
              THEN CHOOSE i \in 1..Len(s) : s[i] = c /\ \A j \in 1..(i - 1) : s[j] # c
              ELSE 0

\* sub in s
contains(s, sub) == \E i \in 1..(Len(s) - Len(sub) + 1) : SubSeq(s, i, i + Len(sub) - 1) = sub

startswith(s, pre) == Len(s) >= Len(pre) /\ SubSeq(s, 1, Len(pre)) = pre

\* The k-th smallest member of a set of numbers.
nth(S, k) == CHOOSE p \in S : Cardinality({q \in S : q < p}) = k - 1

\* s.split(c): the pieces between the occurrences of c.
split(s, c) ==
    let({i \in 1..Len(s) : s[i] = c}, LAMBDA at :
        tuple([k \in 1..(Cardinality(at) + 1) |->
                  SubSeq(s, IF k = 1 THEN 1 ELSE nth(at, k - 1) + 1,
                            IF k = Cardinality(at) + 1 THEN Len(s) ELSE nth(at, k) - 1)]))

\* Python's order on strings: by code point, a proper prefix first.
StrLess(a, b) ==
    \E k \in 1..Len(b) :
        /\ \A j \in 1..(k - 1) : j <= Len(a) /\ a[j] = b[j]
        /\ \/ Len(a) = k - 1
           \/ Len(a) >= k /\ ord(a[k]) < ord(b[k])

\* sorted(list(S)) for a set S of strings
sorted(S) ==
    let(S, LAMBDA all :
        tuple([k \in 1..Cardinality(all) |->
                  CHOOSE x \in all : Cardinality({y \in all : StrLess(y, x)}) = k - 1]))

Range(q) == {q[i] : i \in 1..Len(q)}

(***************************************************************************)
(* ProxyType and ProxyTester.parse_proxy_url                               *)
(***************************************************************************)

HTTP   == <<"h", "t", "t", "p">>
HTTPS  == <<"h", "t", "t", "p", "s">>
SOCKS4 == <<"s", "o", "c", "k", "s", "4">>
SOCKS5 == <<"s", "o", "c", "k", "s", "5">>

ProxyType == {HTTP, HTTPS, SOCKS4, SOCKS5}

\* The result None of parse_proxy_url; a match is <<host, port, type>>.
None == <<>>

\* urlsplit drops the line breaks of the url (its other unsafe character, the
\* tab, is none of Chars).
remove_unsafe(url) ==
    let({i \in 1..Len(url) : url[i] \notin {"\n", "\r"}}, LAMBDA keep :
        tuple([k \in 1..Cardinality(keep) |-> url[nth(keep, k)]]))

\* urlsplit's scheme: the text before the first ":", when it starts with a letter
\* and holds only scheme characters; <<scheme, rest of the url>>.
split_scheme(url) ==
    let(find(url, ":"), LAMBDA i :
        IF /\ i > 1
           /\ url[1] \in Letters
           /\ \A k \in 1..(i - 1) : url[k] \in Letters \cup Digits \cup {"."}
        THEN <<lower(SubSeq(url, 1, i - 1)), SubSeq(url, i + 1, Len(url))>>
        ELSE <<(<<>>), url>>)

\* urlsplit's netloc: what follows a leading "//", up to the first "/" or "#".
split_netloc(rest) ==
    IF startswith(rest, <<"/", "/">>)
    THEN let(SubSeq(rest, 3, Len(rest)), LAMBDA after :
             let({k \in 1..Len(after) : after[k] \in {"/", "#"}}, LAMBDA stops :
                 IF stops = {} THEN after
                 ELSE SubSeq(after, 1, (CHOOSE k \in stops : \A j \in stops : k <= j) - 1)))
    ELSE <<>>

\* urllib.parse.urlparse, as far as parse_proxy_url reads it: the scheme, and the
\* host and port text of the network location.  porttext is <<>> when absent.
urlparse(url) ==
    let(split_scheme(remove_unsafe(url)), LAMBDA parts :
        let(split_netloc(parts[2]), LAMBDA netloc :
            let(find(netloc, ":"), LAMBDA c :
                [scheme   |-> parts[1],
                 hostname |-> lower(IF c = 0 THEN netloc ELSE SubSeq(netloc, 1, c - 1)),
                 porttext |-> IF c = 0 THEN <<>> ELSE SubSeq(netloc, c + 1, Len(netloc))])))

\* ParseResult.port raises ValueError for a port that is not a number up to 65535.
PortRaisesValueError(p) == Len(p.porttext) > 0 /\ (~isdigit(p.porttext) \/ int(p.porttext) > 65535)

\* The branch of parse_proxy_url for a string holding "://".
parse_url_branch(proxy_str) ==
    let(urlparse(proxy_str), LAMBDA parsed :
        IF Len(parsed.hostname) = 0 THEN None
        ELSE IF PortRaisesValueError(parsed) THEN None
        ELSE IF Len(parsed.porttext) = 0 \/ int(parsed.porttext) = 0 THEN None
        ELSE IF parsed.scheme \in ProxyType
             THEN <<parsed.hostname, str(int(parsed.porttext)), parsed.scheme>>
             ELSE None)

\* The regular expression without its bounds on the number of digits.
ip_port_match_unbounded(proxy_str) ==
    let(split(proxy_str, ":"), LAMBDA parts :
        IF Len(parts) # 2 THEN None
        ELSE let(split(parts[1], "."), LAMBDA octets :
                 IF /\ Len(octets) = 4
                    /\ \A k \in 1..4 : isdigit(octets[k])
                    /\ isdigit(parts[2])
                 THEN parts
                 ELSE None))

\* The regular expression ^(\d{1,3}\.\d{1,3}\.\d{1,3}\.\d{1,3}):(\d{1,5})$ :
\* <<ip, port>> for a match, None otherwise.
ip_port_match(proxy_str) ==
    let(split(proxy_str, ":"), LAMBDA parts :
        IF Len(parts) # 2 THEN None
        ELSE let(split(parts[1], "."), LAMBDA octets :
                 IF /\ Len(octets) = 4
                    /\ \A k \in 1..4 : isdigit(octets[k]) /\ Len(octets[k]) <= 3
                    /\ isdigit(parts[2]) /\ Len(parts[2]) <= 5
                 THEN parts
                 ELSE None))

\* The branch of parse_proxy_url for a bare ip:port.
parse_ip_port_branch(proxy_str) ==
    let(ip_port_match(proxy_str), LAMBDA match :
        IF match = None THEN None
        ELSE let(split(match[1], "."), LAMBDA octets :
                 let(int(match[2]), LAMBDA port :
                     IF (\A k \in 1..4 : int(octets[k]) <= 255) /\ 1 <= port /\ port <= 65535
                     THEN <<match[1], str(port), HTTP>>
                     ELSE None)))

parse_proxy_url(raw) ==
    let(strip(raw), LAMBDA proxy_str :
        IF Len(proxy_str) = 0 THEN None
        ELSE let(IF contains(proxy_str, <<":", "/", "/">>)
                 THEN parse_url_branch(proxy_str) ELSE None,
                 LAMBDA viaUrl :
                     IF viaUrl # None THEN viaUrl ELSE parse_ip_port_branch(proxy_str)))

\* The key f"{parsed[0]}:{parsed[1]}" of a match.
KeyOf(parsed) == parsed[1] \o <<":">> \o parsed[2]


(***************************************************************************)
(* ProxyTester.extract_proxies_from_text and the parsing of a source's     *)
(* body in ProxyTester.fetch_proxy_list                                    *)
(***************************************************************************)

\* text.replace('\r\n', '\n'): each "\r" that a "\n" follows goes.
replace_crlf(text) ==
    let({i \in 1..Len(text) : ~(text[i] = "\r" /\ i < Len(text) /\ text[i + 1] = "\n")},
        LAMBDA keep : tuple([k \in 1..Cardinality(keep) |-> text[nth(keep, k)]]))

\* .replace('\r', '\n')
replace_cr(text) == tuple([i \in 1..Len(text) |-> IF text[i] = "\r" THEN "\n" ELSE text[i]])

\* The loop body of extract_proxies_from_text: the keys one line adds.
keys_of_line(line) ==
    let(strip(line), LAMBDA stripped :
        IF Len(stripped) = 0 \/ stripped[1] = "#" THEN {}
        ELSE let(parse_proxy_url(stripped), LAMBDA parsed :
                 IF parsed # None THEN {KeyOf(parsed)} ELSE {}))

extract_proxies_from_text(text) ==
    let(replace_crlf(text), LAMBDA unix :
        let(replace_cr(unix), LAMBDA normal :
            let(split(normal, "\n"), LAMBDA lines :
                UNION {keys_of_line(lines[i]) : i \in 1..Len(lines)})))

\* The items of a decoded JSON list: a string, a dict (with the text str()
\* gives its "ip" and "port" values, when it has them), or anything else.
StrItem(s)        == [t |-> "str",   s |-> s,    has_ip |-> FALSE, has_port |-> FALSE, ip |-> <<>>, port |-> <<>>]
DictItem(ip, port) == [t |-> "dict", s |-> <<>>, has_ip |-> TRUE,  has_port |-> TRUE,  ip |-> ip,   port |-> port]
DictNoPort(ip)    == [t |-> "dict",  s |-> <<>>, has_ip |-> TRUE,  has_port |-> FALSE, ip |-> ip,   port |-> <<>>]
OtherItem         == [t |-> "other", s |-> <<>>, has_ip |-> FALSE, has_port |-> FALSE, ip |-> <<>>, port |-> <<>>]

\* f"{item['ip']}:{item['port']}"
DirectKey(item) == item.ip \o <<":">> \o item.port

\* What json.loads(content) gives: a list, a dict (whose "data", when it has
\* one that is a list, is in items), another JSON value, or JSONDecodeError.
JsonList(items)  == [json |-> "list",    items |-> items, has_data |-> FALSE, text |-> <<>>]
JsonData(items)  == [json |-> "dict",    items |-> items, has_data |-> TRUE,  text |-> <<>>]
JsonDictNoData   == [json |-> "dict",    items |-> <<>>,  has_data |-> FALSE, text |-> <<>>]
NotJson(text)    == [json |-> "invalid", items |-> <<>>,  has_data |-> FALSE, text |-> text]

\* One item of the list: a string goes through parse_proxy_url, a dict holding
\* "ip" and "port" gives its key directly, anything else gives nothing.
keys_of_item(item) ==
    IF item.t = "str"
    THEN let(parse_proxy_url(item.s), LAMBDA parsed :
             IF parsed # None THEN {KeyOf(parsed)} ELSE {})
    ELSE IF item.t = "dict" /\ item.has_ip /\ item.has_port
    THEN {DirectKey(item)}
    ELSE {}

\* The body of the "if response.status == 200" branch of fetch_proxy_list.
proxies_of_content(content) ==
    IF content.json = "list"
    THEN UNION {keys_of_item(content.items[i]) : i \in 1..Len(content.items)}
    ELSE IF content.json = "dict" /\ content.has_data
    THEN UNION {IF content.items[i].t = "dict" THEN keys_of_item(content.items[i]) ELSE {} :
                    i \in 1..Len(content.items)}
    ELSE IF content.json = "invalid"
    THEN extract_proxies_from_text(content.text)
    ELSE {}

(***************************************************************************)
(* The strings the environment supplies                                    *)
(***************************************************************************)

KeyCanonical  == <<"1", ".", "2", ".", "3", ".", "4", ":", "8", "0">>
KeyZeroPort   == <<"1", ".", "2", ".", "3", ".", "4", ":", "0", "8", "0">>
KeyPadded     == <<" ", "1", ".", "2", ".", "3", ".", "4", ":", "8", "0">>
KeyHostname   == <<"h", ".", "a", ":", "8", "0">>
KeyOther      == <<"9", ".", "9", ".", "9", ".", "9", ":", "8">>
KeyStale      == <<"8", ".", "8", ".", "8", ".", "8", ":", "8">>
LineBadOctet  == <<"2", "5", "6", ".", "1", ".", "1", ".", "1", ":", "8", "0">>
LinePortZero  == <<"1", ".", "2", ".", "3", ".", "4", ":", "0">>
LineUrl       == <<"h", "t", "t", "p", ":", "/", "/", "1", ".", "2", ".", "3", ".", "4", ":", "8", "0">>
LineBlank     == <<>>

\* "1.2.3.4:80\r\n#a\n\rhttp://H.a:80 \n"
TextBody == NotJson(<<"1", ".", "2", ".", "3", ".", "4", ":", "8", "0", "\r", "\n",
                      "#", "a", "\n", "\r",
                      "h", "t", "t", "p", ":", "/", "/", "H", ".", "a", ":", "8", "0", " ", "\n">>)

\* ["9.9.9.9:8", {"ip": "1.2.3.4", "port": "080"}, "256.1.1.1:80", {"ip": "1.2.3.4"}, 7]
ListBody == JsonList(<< StrItem(KeyOther),
                        DictItem(<<"1", ".", "2", ".", "3", ".", "4">>, <<"0", "8", "0">>),
                        StrItem(LineBadOctet),
                        DictNoPort(<<"1", ".", "2", ".", "3", ".", "4">>),
                        OtherItem >>)

\* {"data": [{"ip": " 1.2.3.4", "port": 80}, "9.9.9.9:8"]}
DataBody == JsonData(<< DictItem(<<" ", "1", ".", "2", ".", "3", ".", "4">>, str(80)),
                        StrItem(KeyOther) >>)

\* The bodies a source may answer with.
Bodies == {TextBody, ListBody, DataBody, JsonDictNoData}

(***************************************************************************)
(* Bounds and configuration                                                *)
(***************************************************************************)

\* The number of source URLs load_proxy_sources may return.
NumSources == 3

\* The most candidates the sources' answers add up to in one cycle.
MaxCandidates == 3

\* The most lines of an artifact that finalize is run on directly.
MaxLines == 3

\* The most candidates of a list test_proxies_batch is called on directly.
MaxBatch == 3

\* How many times in a row finalize is run on an artifact.
MaxRuns == 2

\* CONFIG["max_concurrent_fetches"] and CONFIG["max_concurrent_tests"], scaled
\* down so that there are more tasks than permits.
max_concurrent_fetches == 2
max_concurrent_tests == 2

\* CONFIG["progress_update_interval_seconds"], scaled down.
progress_update_interval_seconds == 2

\* What time.time() reads when the cycle begins: the epoch is further back than
\* one interval.
Epoch == 2

\* How far the clock advances during one batch.
MaxTime == 3

\* The most candidates a ProgressReporter used on its own is created for.
MaxTotal == 4

(***************************************************************************)
(* ProgressReporter.display_progress.  A float is the fraction <<n, d>>,   *)
(* d # 0 wherever the code divides only after its test.                    *)
(***************************************************************************)

Fraction(n, d) == <<n, d>>
Positive(q) == q[1] * q[2] > 0
Equal(q, r) == q[1] * r[2] = r[1] * q[2]

\* f"{q:.0f}" of q >= 0: the nearest integer, the even one of two.
format_0f(q) ==
    let(q[1] \div q[2], LAMBDA whole :
        let(2 * (q[1] % q[2]), LAMBDA twice_rest :
            IF twice_rest > q[2] \/ (twice_rest = q[2] /\ whole % 2 = 1)
            THEN whole + 1
            ELSE whole))

\* Line 75 without its test of elapsed_time.
speed_unguarded(tested, elapsed_time) == Fraction(tested, elapsed_time)

\* Line 75.
proxies_per_second(tested, elapsed_time) ==
    IF elapsed_time > 0 THEN Fraction(tested, elapsed_time) ELSE Fraction(0, 1)

\* Line 78: total_proxies / proxies_per_second.
estimated_total_time(total, speed) == Fraction(total * speed[2], speed[1])

\* Line 79: estimated_total_time - elapsed_time.
remaining_time(total, speed, elapsed_time) ==
    let(estimated_total_time(total, speed), LAMBDA est :
        Fraction(est[1] - elapsed_time * est[2], est[2]))

NotAvailable == [kind |-> "N/A", seconds |-> 0]
Placeholder  == [kind |-> "...", seconds |-> 0]

\* Lines 77-82.
eta_str(total, tested, elapsed_time) ==
    let(proxies_per_second(tested, elapsed_time), LAMBDA speed :
        IF total > 0 /\ tested > 0 /\ Positive(speed)
        THEN let(remaining_time(total, speed, elapsed_time), LAMBDA remaining :
                 IF Positive(remaining)
                 THEN [kind |-> "s", seconds |-> format_0f(remaining)]
                 ELSE Placeholder)
        ELSE NotAvailable)

\* Lines 77-82 as the floats compute them: when the remaining time is exactly
\* zero, the rounding of the two divisions leaves zero or a few units in the last
\* place, and the summary shows "ETA: ..." or "ETA: 0s".
eta_strs(total, tested, elapsed_time) ==
    let(eta_str(total, tested, elapsed_time), LAMBDA exact :
        IF exact = Placeholder /\ tested = total
        THEN {Placeholder, [kind |-> "s", seconds |-> 0]}
        ELSE {exact})

\* Line 84.
progress_percent(total, tested) ==
    IF total > 0 THEN Fraction(tested * 100, total) ELSE Fraction(0, 1)

\* Lines 71-72: whether this call logs.
emits(current_time, last, total, tested) ==
    current_time - last >= progress_update_interval_seconds \/ tested = total

\* Lines 86-90: what the call logs.
summary(current_time, start, total, tested, working, dead, eta) ==
    [at      |-> current_time,
     tested  |-> tested,
     total   |-> total,
     percent |-> progress_percent(total, tested),
     working |-> working,
     dead    |-> dead,
     speed   |-> proxies_per_second(tested, current_time - start),
     eta     |-> eta]

(***************************************************************************)
(* State                                                                   *)
(***************************************************************************)

VARIABLES
    phase,                     \* where run_cycle (or the caller of the class) is
    machine_ip,                \* whether self.machine_ip holds this machine's address
    probe,                     \* history: how _get_machine_ip ended, "none" when not called
    network,                   \* how the requests sent through a proxy may end in this run
    artifact,                  \* the lines of CONFIG["output_file"], without their "\n"
    written_proxies_this_run,  \* ProxyTester.written_proxies_this_run
    output_file_lock,          \* the holders of ProxyTester.output_file_lock (0: run_cycle)
    fpc, fret, fbody, fsem,    \* fetch tasks: position, returned set, body received; semaphore
    fetched,                   \* the set fetch_all_proxy_lists returns
    batch,                     \* proxies_to_test
    tpc, result, raw_results,  \* test tasks: position, result dict, what gather collected
    tsem,                      \* the semaphore of test_proxies_batch
    running,                   \* the test task that holds the event loop, 0 when none
    has_reporter,              \* self.progress_reporter is not None
    total_proxies, tested_count, working_count, dead_count,
    progress_lock,             \* the holders of ProgressReporter.lock
    start_time,                \* ProgressReporter.start_time
    last_update_time,          \* ProgressReporter.last_update_time
    now,                       \* what time.time() reads
    reports,                   \* history: the summaries display_progress has logged
    appended,                  \* history: the keys written to the artifact since clear
    io_errors,                 \* history: the file operations that raised
    requests,                  \* history: per test task, the stages requested, in order
    outcome,                   \* history: per test task, how each stage ended
    working_keys,              \* history: the keys whose outcome had working = True
    previous,                  \* history: the lines of the artifact when the cycle began
    given, after_first, runs,  \* history of finalize: its first input and output, its runs
    proxy_str, parsed          \* parse_proxy_url called on its own: its argument, what it returned

envVars   == <<machine_ip, probe, network>>
storeVars == <<artifact, written_proxies_this_run, output_file_lock>>
fetchVars == <<fpc, fret, fbody, fsem, fetched>>
testVars  == <<batch, tpc, result, raw_results, tsem, running>>
progVars  == <<has_reporter, total_proxies, tested_count, working_count, dead_count, progress_lock>>
codecVars == <<proxy_str, parsed>>
clockVars == <<start_time, last_update_time, now, reports>>
histVars  == <<appended, io_errors, requests, outcome, working_keys>>
finVars   == <<previous, given, after_first, runs>>

vars == <<phase, envVars, codecVars, clockVars, storeVars, fetchVars, testVars, progVars, histVars, finVars>>

Tasks == 1..Len(batch)

\* The result dict test_proxy_connectivity starts from; NoResult before and after.
NewResult(p) == [proxy |-> p, working |-> FALSE, http_working |-> FALSE,
                 https_working |-> FALSE, google_working |-> FALSE,
                 anonymity |-> "unknown", has_latency |-> FALSE, errors |-> <<>>]

NoResult == NewResult(<<>>)

NoOutcome == [s1 |-> "none", s2 |-> "none", s3 |-> "none"]

\* How a request sent through a proxy may end: stage 1 (200 with a body that
\* parses, 200 with a malformed body, another status, or one of the four except
\* clauses), stages 2 and 3 (the expected status, another one, or one of the three
\* except clauses), and what the echoed origin is.
HttpOutcomes   == {"ok", "bad_json", "status", "timeout", "proxy_connect", "client_error", "error"}
StageOutcomes  == {"ok", "status", "timeout", "client_error", "error"}
Origins        == {"own", "proxy", "other"}

\* Any proxy behaviour, explored for one candidate at a time.
FullNetwork  == [http |-> HttpOutcomes, stage |-> StageOutcomes, origins |-> Origins]

\* The proxy behaviours explored when several candidates are tested together:
\* each request succeeds or times out.
PlainNetwork == [http |-> {"ok", "timeout"}, stage |-> {"ok", "timeout"}, origins |-> {"other"}]

\* How the request of _get_machine_ip may end: a 200 whose body names an origin,
\* a 200 whose body names none (the address is then the empty string), another
\* status, or an exception (at the request, or at the reading of the body).
ProbeOutcomes == {"origin", "no_origin", "status", "exception"}

\* The outcomes of the probe explored for a whole cycle.
PlainProbes == {"origin", "exception"}

\* "if self.machine_ip" after _get_machine_ip ended in this way.
get_machine_ip(how) == how = "origin"

\* __aenter__ has run _get_machine_ip, or the ProxyTester was not entered.
Probed(how) == probe = how /\ machine_ip = get_machine_ip(how)
NotProbed   == probe = "none" /\ machine_ip = FALSE

\* What came before the cycle: nothing, an artifact that an earlier process left,
\* or an artifact and the guard of an earlier cycle of this ProxyTester.
OldStores == { [artifact |-> <<>>, guard |-> {}],
               [artifact |-> <<KeyStale, KeyCanonical>>, guard |-> {}],
               [artifact |-> <<KeyStale, KeyCanonical>>, guard |-> {KeyStale, KeyCanonical}] }

\* ProgressReporter.__init__, and a ProxyTester that has no reporter yet.
ProgressReporter(total) ==
    /\ has_reporter = TRUE
    /\ total_proxies = total
    /\ tested_count = 0 /\ working_count = 0 /\ dead_count = 0
    /\ last_update_time = 0
    /\ start_time = Epoch

NoReporter ==
    /\ has_reporter = FALSE
    /\ total_proxies = 0
    /\ tested_count = 0 /\ working_count = 0 /\ dead_count = 0
    /\ last_update_time = 0
    /\ start_time = 0

\* ProxyTester.__init__, and the histories.
InitCommon ==
    /\ output_file_lock = {}
    /\ fpc = <<>> /\ fret = <<>> /\ fbody = <<>>
    /\ fsem = max_concurrent_fetches
    /\ tsem = max_concurrent_tests
    /\ running = 0
    /\ progress_lock = {}
    /\ reports = <<>>
    /\ parsed = None
    /\ appended = {}
    /\ io_errors = {}
    /\ working_keys = {}
    /\ given = <<>>
    /\ after_first = <<>>
    /\ runs = 0

NoBatch ==
    /\ batch = <<>> /\ tpc = <<>> /\ result = <<>> /\ raw_results = <<>>
    /\ requests = <<>> /\ outcome = <<>>

\* test_proxies_batch has created one task per candidate of list.
BatchCalled(list) ==
    /\ batch = list
    /\ tpc = [i \in 1..Len(list) |-> "new"]
    /\ result = [i \in 1..Len(list) |-> NoResult]
    /\ raw_results = [i \in 1..Len(list) |-> "none"]
    /\ requests = [i \in 1..Len(list) |-> <<>>]
    /\ outcome = [i \in 1..Len(list) |-> NoOutcome]

\* main() has entered the ProxyTester (__aenter__ ran the probe) and calls run_cycle.
Init ==
    /\ InitCommon
    /\ NoBatch
    /\ NoReporter
    /\ \E how \in PlainProbes : Probed(how)
    /\ phase = "start"
    /\ network = PlainNetwork
    /\ now = Epoch
    /\ proxy_str = <<>>
    /\ fetched = {}
    /\ \E old \in OldStores : artifact = old.artifact /\ written_proxies_this_run = old.guard
    /\ previous = artifact

(***************************************************************************)
(* OutputStore: _initial_clear_proxies_file, _append_working_proxy_to_file,*)
(* _sort_and_finalize_proxies_file                                         *)
(***************************************************************************)

\* A clear() that leaves the lines of the file in place.
not_truncated(lines) == lines

\* open(output_file, 'w'); f.write("")
truncated(lines) == <<>>

\* The lines of the file after a write on a file opened with 'w' instead of 'a'.
file_overwrite(lines, key) == <<key>>

\* The lines of the file after open(output_file, 'a'); f.write(f"{key}\n")
file_append(lines, key) == Append(lines, key)

\* An append that does not look at the guard.
never_written(key, guard) == FALSE

\* The test "proxy_ip_port in self.written_proxies_this_run" that ends the call.
already_written(key, guard) == key \in guard

\* A reading loop that keeps every stripped line, without validating it.
kept_unvalidated(line) == {strip(line)}

\* The reading loop's body in finalize: the stripped line is kept when it is
\* not empty and parse_proxy_url matches it.
kept_of_line(line) ==
    let(strip(line), LAMBDA stripped :
        IF Len(stripped) > 0 /\ parse_proxy_url(stripped) # None THEN {stripped} ELSE {})

\* The set current_proxies that the reading loop of finalize builds.
current_proxies(lines) == UNION {kept_of_line(lines[i]) : i \in 1..Len(lines)}

\* A writing loop on a file opened with 'a' instead of 'w'.
written_after(old, new_lines) == old \o new_lines

\* The lines of the file after open(output_file, 'w') and the writing loop.
rewritten(old, new_lines) == new_lines

\* The try block of _sort_and_finalize_proxies_file.
sort_and_finalize(lines) == rewritten(lines, sorted(current_proxies(lines)))

\* An "async with lock" whose exit leaves the lock held.
lock_kept(holders, who) == holders

\* asyncio.Lock: "async with lock" is entered by who when nobody holds the lock,
\* and left.
lock_acquire(holders, who) == holders \cup {who}
lock_release(holders, who) == holders \ {who}

\* _initial_clear_proxies_file, when no file operation raises.
Clear ==
    /\ phase = "start"
    /\ artifact' = truncated(artifact)
    /\ written_proxies_this_run' = {}
    /\ appended' = {}
    /\ phase' = "load"
    /\ UNCHANGED <<envVars, codecVars, clockVars, output_file_lock, fetchVars, testVars, progVars,
                   io_errors, requests, outcome, working_keys, finVars>>

\* _initial_clear_proxies_file, when open raises: the error is logged.
ClearFails ==
    /\ phase = "start"
    /\ io_errors' = io_errors \cup {"clear"}
    /\ phase' = "load"
    /\ UNCHANGED <<envVars, codecVars, clockVars, storeVars, fetchVars, testVars, progVars,
                   appended, requests, outcome, working_keys, finVars>>

(***************************************************************************)
(* SourceFetcher: load_proxy_sources, fetch_all_proxy_lists,               *)
(* fetch_proxy_list                                                        *)
(***************************************************************************)

\* run_cycle reads the sources and returns when there are none; otherwise
\* fetch_all_proxy_lists creates one task per source and awaits gather.
LoadSources ==
    /\ phase = "load"
    /\ \E n \in 0..NumSources :
          /\ fpc' = [s \in 1..n |-> "new"]
          /\ fret' = [s \in 1..n |-> {}]
          /\ fbody' = [s \in 1..n |-> <<>>]
          /\ phase' = IF n = 0 THEN "returned" ELSE "fetch"
    /\ UNCHANGED <<envVars, codecVars, clockVars, storeVars, fsem, fetched, testVars, progVars, histVars, finVars>>

\* A wait that ends when the first task is done.
gather_first(pcs) == \E k \in DOMAIN pcs : pcs[k] = "done"

\* "await asyncio.gather(*tasks, return_exceptions=True)" goes on once every
\* task is done.
gather(pcs) == \A k \in DOMAIN pcs : pcs[k] = "done"

\* An exit that keeps the permit.
sem_kept(value) == value

\* Semaphore.acquire when a permit is free, and Semaphore.release.
sem_acquire(value) == value - 1
sem_release(value) == value + 1

\* async with semaphore, then session.get(url) of fetch_proxy_list.
FetchStart(s) ==
    /\ phase = "fetch"
    /\ fpc[s] = "new"
    /\ fsem > 0
    /\ fsem' = sem_acquire(fsem)
    /\ fpc' = [fpc EXCEPT ![s] = "get"]
    /\ UNCHANGED <<phase, envVars, codecVars, clockVars, storeVars, fret, fbody, fetched, testVars, progVars,
                   histVars, finVars>>

\* The GET ends: status 200, and the task awaits response.text().
FetchStatusOk(s) ==
    /\ phase = "fetch"
    /\ fpc[s] = "get"
    /\ fpc' = [fpc EXCEPT ![s] = "body"]
    /\ UNCHANGED <<phase, envVars, codecVars, clockVars, storeVars, fret, fbody, fsem, fetched, testVars,
                   progVars, histVars, finVars>>

\* The GET or the read of the body ends in another status, a timeout or an
\* exception: the task logs it, returns its (empty) set and releases its permit.
FetchFails(s) ==
    /\ phase = "fetch"
    /\ \E how \in {"status", "timeout", "exception"} :
          /\ fpc[s] \in (IF how = "status" THEN {"get"} ELSE {"get", "body"})
          /\ fpc' = [fpc EXCEPT ![s] = "done"]
    /\ fsem' = sem_release(fsem)
    /\ UNCHANGED <<phase, envVars, codecVars, clockVars, storeVars, fret, fbody, fetched, testVars, progVars,
                   histVars, finVars>>

\* The body arrives: it is parsed, and the task returns its set and releases.
FetchBody(s) ==
    /\ phase = "fetch"
    /\ fpc[s] = "body"
    /\ \E content \in Bodies :
          \E proxies \in {proxies_of_content(content)} :
              /\ Cardinality(proxies \cup UNION {fret[o] : o \in DOMAIN fret}) <= MaxCandidates
              /\ fret' = [fret EXCEPT ![s] = proxies]
              /\ fbody' = [fbody EXCEPT ![s] = <<content>>]
    /\ fpc' = [fpc EXCEPT ![s] = "done"]
    /\ fsem' = sem_release(fsem)
    /\ UNCHANGED <<phase, envVars, codecVars, clockVars, storeVars, fetched, testVars, progVars, histVars, finVars>>

\* A merge that gives up when a source contributed nothing.
merge_aborting(results) ==
    IF \E k \in 1..Len(results) : results[k] = {} THEN {}
    ELSE UNION {results[k] : k \in 1..Len(results)}

\* The loop "for result in results: all_proxies.update(result)".
merge_results(results) == UNION {results[k] : k \in 1..Len(results)}

\* gather returns once every fetch task is done; the results are merged.
FetchAllReturn ==
    /\ phase = "fetch"
    /\ gather(fpc)
    /\ fetched' = merge_results(fret)
    /\ phase' = "fetched"
    /\ UNCHANGED <<envVars, codecVars, clockVars, storeVars, fpc, fret, fbody, fsem, testVars, progVars,
                   histVars, finVars>>


(***************************************************************************)
(* ProxyValidator: test_proxy_connectivity, test_proxies_batch             *)
(***************************************************************************)

\* A classification that does not ask whether the machine's address is known.
anonymity_unguarded(known, origin) ==
    IF origin = "own" THEN "transparent"
    ELSE IF origin = "proxy" THEN "anonymous"
    ELSE "elite"

\* The classification of lines 249-252, from what the echoed origin is.
anonymity_of(known, origin) ==
    IF ~known THEN "unknown"
    ELSE IF origin = "own" THEN "transparent"
    ELSE IF origin = "proxy" THEN "anonymous"
    ELSE "elite"

\* A stage 1 that classifies the anonymity before it reads the answer.
classifies_first(r, how, known, origin) ==
    [r EXCEPT !.http_working = (how = "ok"),
              !.anonymity = anonymity_of(known, origin),
              !.errors = IF how = "ok" THEN @ ELSE Append(@, "HTTP Error")]

\* Stage 1, lines 239-261: the result after the HTTP echo request ended.
after_http_stage(r, how, known, origin) ==
    IF how = "ok"
    THEN [r EXCEPT !.has_latency = TRUE, !.http_working = TRUE,
                   !.anonymity = anonymity_of(known, origin)]
    ELSE IF how = "bad_json"
    THEN [r EXCEPT !.has_latency = TRUE, !.http_working = FALSE,
                   !.errors = Append(@, "HTTP JSON Error")]
    ELSE IF how = "status"
    THEN [r EXCEPT !.has_latency = TRUE, !.errors = Append(@, "HTTP status")]
    ELSE IF how = "timeout"       THEN [r EXCEPT !.errors = Append(@, "HTTP Timeout")]
    ELSE IF how = "proxy_connect" THEN [r EXCEPT !.errors = Append(@, "Proxy Connect Error")]
    ELSE IF how = "client_error"  THEN [r EXCEPT !.errors = Append(@, "HTTP ClientError")]
    ELSE [r EXCEPT !.errors = Append(@, "HTTP Error")]

\* Stage 2, lines 264-270.
after_https_stage(r, how) ==
    IF how = "ok"                THEN [r EXCEPT !.https_working = TRUE]
    ELSE IF how = "status"       THEN [r EXCEPT !.errors = Append(@, "HTTPS status")]
    ELSE IF how = "timeout"      THEN [r EXCEPT !.errors = Append(@, "HTTPS Timeout")]
    ELSE IF how = "client_error" THEN [r EXCEPT !.errors = Append(@, "HTTPS ClientError")]
    ELSE [r EXCEPT !.errors = Append(@, "HTTPS Error")]

\* Stage 3, lines 273-279: success is status 204.
after_google_stage(r, how) ==
    IF how = "ok"                THEN [r EXCEPT !.google_working = TRUE]
    ELSE IF how = "status"       THEN [r EXCEPT !.errors = Append(@, "Google status")]
    ELSE IF how = "timeout"      THEN [r EXCEPT !.errors = Append(@, "Google Timeout")]
    ELSE IF how = "client_error" THEN [r EXCEPT !.errors = Append(@, "Google ClientError")]
    ELSE [r EXCEPT !.errors = Append(@, "Google Error")]

\* Stages 2 and 3 without their guards.
runs_all_stages(r) == TRUE

\* The guards "if result['http_working']" before stages 2 and 3.
runs_later_stages(r) == r.http_working

\* A verdict that also asks for the HTTPS stage.
working_needs_https(r) == r.http_working /\ r.https_working /\ r.google_working

\* Line 281.
working_of(r) == r.http_working /\ r.google_working

\* run_cycle, lines 379-393: it returns when nothing was fetched; otherwise it
\* lists the candidates, creates the ProgressReporter, reports once, and
\* test_proxies_batch creates one task per candidate and awaits gather.  The
\* order of list(fetched_proxies) only numbers the tasks, which start in any order
\* here; the fetch tasks are gone.
StartBatch ==
    /\ phase = "fetched"
    /\ IF fetched = {}
       THEN /\ phase' = "returned"
            /\ UNCHANGED <<testVars, progVars, clockVars, requests, outcome>>
       ELSE \E list \in {sorted(fetched)} :
                /\ phase' = "test"
                /\ batch' = list
                /\ tpc' = [i \in 1..Len(list) |-> "new"]
                /\ result' = [i \in 1..Len(list) |-> NoResult]
                /\ raw_results' = [i \in 1..Len(list) |-> "none"]
                /\ requests' = [i \in 1..Len(list) |-> <<>>]
                /\ outcome' = [i \in 1..Len(list) |-> NoOutcome]
                /\ tsem' = max_concurrent_tests
                /\ has_reporter' = TRUE
                /\ total_proxies' = Len(list)
                /\ tested_count' = 0 /\ working_count' = 0 /\ dead_count' = 0
                /\ start_time' = now
                /\ IF emits(now, 0, Len(list), 0)
                   THEN /\ \E eta \in eta_strs(Len(list), 0, 0) :
                               reports' = Append(reports,
                                                 summary(now, now, Len(list), 0, 0, 0, eta))
                        /\ last_update_time' = now
                   ELSE /\ reports' = reports
                        /\ last_update_time' = 0
                /\ UNCHANGED <<running, progress_lock, now>>
    /\ fpc' = <<>> /\ fret' = <<>> /\ fbody' = <<>>
    /\ UNCHANGED <<envVars, codecVars, storeVars, fsem, fetched, appended, io_errors, working_keys,
                   finVars>>

\* async with semaphore; the result dict; the stage 1 request is sent.
TestStart(i) ==
    /\ phase = "test" /\ running = 0
    /\ tpc[i] = "new"
    /\ tsem > 0
    /\ tsem' = sem_acquire(tsem)
    /\ result' = [result EXCEPT ![i] = NewResult(batch[i])]
    /\ requests' = [requests EXCEPT ![i] = <<1>>]
    /\ tpc' = [tpc EXCEPT ![i] = "http"]
    /\ UNCHANGED <<phase, envVars, codecVars, clockVars, storeVars, fetchVars, batch, raw_results, running,
                   progVars, appended, io_errors, outcome, working_keys, finVars>>

\* The stage 1 request ends.  Stage 2 is requested, or lines 263-281 run through.
TestHttpResponse(i) ==
    /\ phase = "test" /\ running = 0
    /\ tpc[i] = "http"
    /\ \E how \in network.http, origin \in network.origins :
          LET r == after_http_stage(result[i], how, machine_ip, origin)
          IN  /\ outcome' = [outcome EXCEPT ![i].s1 = how]
              /\ IF runs_later_stages(r)
                 THEN /\ result' = [result EXCEPT ![i] = r]
                      /\ requests' = [requests EXCEPT ![i] = Append(@, 2)]
                      /\ tpc' = [tpc EXCEPT ![i] = "https"]
                      /\ UNCHANGED running
                 ELSE /\ result' = [result EXCEPT ![i] = [r EXCEPT !.working = working_of(r)]]
                      /\ tpc' = [tpc EXCEPT ![i] = "update"]
                      /\ running' = i
                      /\ UNCHANGED requests
    /\ UNCHANGED <<phase, envVars, codecVars, clockVars, storeVars, fetchVars, batch, raw_results, tsem,
                   progVars, appended, io_errors, working_keys, finVars>>

\* The stage 2 request ends; stage 3 is requested.
TestHttpsResponse(i) ==
    /\ phase = "test" /\ running = 0
    /\ tpc[i] = "https"
    /\ \E how \in network.stage :
          LET r == after_https_stage(result[i], how)
          IN  /\ outcome' = [outcome EXCEPT ![i].s2 = how]
              /\ IF runs_later_stages(r)
                 THEN /\ result' = [result EXCEPT ![i] = r]
                      /\ requests' = [requests EXCEPT ![i] = Append(@, 3)]
                      /\ tpc' = [tpc EXCEPT ![i] = "google"]
                      /\ UNCHANGED running
                 ELSE /\ result' = [result EXCEPT ![i] = [r EXCEPT !.working = working_of(r)]]
                      /\ tpc' = [tpc EXCEPT ![i] = "update"]
                      /\ running' = i
                      /\ UNCHANGED requests
    /\ UNCHANGED <<phase, envVars, codecVars, clockVars, storeVars, fetchVars, batch, raw_results, tsem,
                   progVars, appended, io_errors, working_keys, finVars>>

\* The stage 3 request ends; line 281 sets "working".  The task keeps the event
\* loop from here to its return: no later await of it finds its lock taken.
TestGoogleResponse(i) ==
    /\ phase = "test" /\ running = 0
    /\ tpc[i] = "google"
    /\ \E how \in network.stage :
          LET r == after_google_stage(result[i], how)
          IN  /\ outcome' = [outcome EXCEPT ![i].s3 = how]
              /\ result' = [result EXCEPT ![i] = [r EXCEPT !.working = working_of(r)]]
    /\ tpc' = [tpc EXCEPT ![i] = "update"]
    /\ running' = i
    /\ UNCHANGED <<phase, envVars, codecVars, clockVars, storeVars, fetchVars, batch, raw_results, tsem,
                   progVars, appended, io_errors, requests, working_keys, finVars>>

\* Line 283, and "async with self.lock" of ProgressReporter.update.
TestUpdate(i) ==
    /\ phase = "test" /\ running = i
    /\ tpc[i] = "update"
    /\ IF has_reporter
       THEN /\ progress_lock = {}
            /\ progress_lock' = lock_acquire(progress_lock, i)
            /\ tpc' = [tpc EXCEPT ![i] = "updating"]
       ELSE /\ tpc' = [tpc EXCEPT ![i] = "append"]
            /\ UNCHANGED progress_lock
    /\ UNCHANGED <<phase, envVars, codecVars, clockVars, storeVars, fetchVars, batch, result, raw_results, tsem,
                   running, has_reporter, total_proxies, tested_count, working_count,
                   dead_count, histVars, finVars>>

\* An update that has no else branch: a dead candidate is tested and not tallied.
update_no_else(counts, is_working) ==
    [tested  |-> counts.tested + 1,
     working |-> IF is_working THEN counts.working + 1 ELSE counts.working,
     dead    |-> counts.dead]

\* The body of ProgressReporter.update, lines 63-67, on the three counters.
update(counts, is_working) ==
    [tested  |-> counts.tested + 1,
     working |-> IF is_working THEN counts.working + 1 ELSE counts.working,
     dead    |-> IF is_working THEN counts.dead ELSE counts.dead + 1]

\* ProgressReporter.update, lines 63-67, and the release of its lock.
TestUpdating(i) ==
    /\ phase = "test" /\ running = i
    /\ tpc[i] = "updating"
    /\ \E counts \in {update([tested  |-> tested_count,
                               working |-> working_count,
                               dead    |-> dead_count], result[i].working)} :
          /\ tested_count' = counts.tested
          /\ working_count' = counts.working
          /\ dead_count' = counts.dead
    /\ progress_lock' = lock_release(progress_lock, i)
    /\ tpc' = [tpc EXCEPT ![i] = "display"]
    /\ UNCHANGED <<phase, envVars, codecVars, clockVars, storeVars, fetchVars, batch, result, raw_results, tsem,
                   running, has_reporter, total_proxies, histVars, finVars>>

\* ProgressReporter.display_progress, lines 69-91, called on the reporter as it is.
display_progress ==
    /\ IF emits(now, last_update_time, total_proxies, tested_count)
       THEN /\ \E eta \in eta_strs(total_proxies, tested_count, now - start_time) :
                   reports' = Append(reports, summary(now, start_time, total_proxies,
                                                      tested_count, working_count,
                                                      dead_count, eta))
            /\ last_update_time' = now
       ELSE UNCHANGED <<reports, last_update_time>>
    /\ UNCHANGED <<start_time, now>>

\* Line 285: display_progress.
TestDisplay(i) ==
    /\ phase = "test" /\ running = i
    /\ tpc[i] = "display"
    /\ tpc' = [tpc EXCEPT ![i] = "append"]
    /\ display_progress
    /\ UNCHANGED <<phase, envVars, codecVars, storeVars, fetchVars, batch, result, raw_results, tsem,
                   running, progVars, histVars, finVars>>

\* Lines 287-288 and 221-224: a working proxy is handed to
\* _append_working_proxy_to_file, which returns at once for a key of the guard
\* and otherwise takes the lock of the output file.
TestAppend(i) ==
    /\ phase = "test" /\ running = i
    /\ tpc[i] = "append"
    /\ IF result[i].working /\ ~already_written(batch[i], written_proxies_this_run)
       THEN /\ output_file_lock = {}
            /\ output_file_lock' = lock_acquire(output_file_lock, i)
            /\ tpc' = [tpc EXCEPT ![i] = "appending"]
       ELSE /\ tpc' = [tpc EXCEPT ![i] = "return"]
            /\ UNCHANGED output_file_lock
    /\ working_keys' = IF result[i].working THEN working_keys \cup {batch[i]} ELSE working_keys
    /\ UNCHANGED <<phase, envVars, codecVars, clockVars, artifact, written_proxies_this_run, fetchVars, batch,
                   result, raw_results, tsem, running, progVars, appended, io_errors,
                   requests, outcome, finVars>>

\* Lines 225-229: the key is appended to the file and added to the guard.
TestAppendWrite(i) ==
    /\ phase = "test" /\ running = i
    /\ tpc[i] = "appending"
    /\ artifact' = file_append(artifact, batch[i])
    /\ written_proxies_this_run' = written_proxies_this_run \cup {batch[i]}
    /\ appended' = appended \cup {batch[i]}
    /\ output_file_lock' = lock_release(output_file_lock, i)
    /\ tpc' = [tpc EXCEPT ![i] = "return"]
    /\ UNCHANGED <<phase, envVars, codecVars, clockVars, fetchVars, batch, result, raw_results, tsem, running,
                   progVars, io_errors, requests, outcome, working_keys, finVars>>

\* Lines 230-231: the file operation raises; the error is logged.
TestAppendFails(i) ==
    /\ phase = "test" /\ running = i
    /\ tpc[i] = "appending"
    /\ io_errors' = io_errors \cup {"append"}
    /\ output_file_lock' = lock_release(output_file_lock, i)
    /\ tpc' = [tpc EXCEPT ![i] = "return"]
    /\ UNCHANGED <<phase, envVars, codecVars, clockVars, artifact, written_proxies_this_run, fetchVars, batch,
                   result, raw_results, tsem, running, progVars, appended, requests, outcome,
                   working_keys, finVars>>

\* Line 293 and the end of "async with semaphore": the dict goes to gather, of
\* which the rest of the program reads no more than is kept here.
TestReturn(i) ==
    /\ phase = "test" /\ running = i
    /\ tpc[i] = "return"
    /\ raw_results' = [raw_results EXCEPT ![i] = IF result[i].working THEN "working" ELSE "dead"]
    /\ result' = [result EXCEPT ![i] = NoResult]
    /\ requests' = [requests EXCEPT ![i] = <<>>]
    /\ outcome' = [outcome EXCEPT ![i] = NoOutcome]
    /\ tsem' = sem_release(tsem)
    /\ tpc' = [tpc EXCEPT ![i] = "done"]
    /\ running' = 0
    /\ UNCHANGED <<phase, envVars, codecVars, clockVars, storeVars, fetchVars, batch, progVars, appended,
                   io_errors, working_keys, finVars>>

\* gather returns once every test task is done; run_cycle reports progress
\* (line 396) and calls _sort_and_finalize_proxies_file.
BatchReturn ==
    /\ phase = "test"
    /\ gather(tpc)
    /\ phase' = "finalize"
    /\ IF has_reporter THEN display_progress ELSE UNCHANGED clockVars
    /\ UNCHANGED <<envVars, codecVars, storeVars, fetchVars, testVars, progVars, histVars, finVars>>

\* "async with self.output_file_lock" of _sort_and_finalize_proxies_file.
FinalizeAcquire ==
    /\ phase = "finalize"
    /\ output_file_lock = {}
    /\ output_file_lock' = lock_acquire(output_file_lock, 0)
    /\ given' = IF runs = 0 THEN artifact ELSE given
    /\ phase' = "finalizing"
    /\ UNCHANGED <<envVars, codecVars, clockVars, artifact, written_proxies_this_run, fetchVars, testVars,
                   progVars, histVars, previous, after_first, runs>>

\* Lines 347-361: the file is read, filtered, sorted and written back.
FinalizeRewrite ==
    /\ phase = "finalizing"
    /\ artifact' = sort_and_finalize(artifact)
    /\ after_first' = IF runs = 0 THEN artifact' ELSE after_first
    /\ runs' = runs + 1
    /\ output_file_lock' = lock_release(output_file_lock, 0)
    /\ phase' = "finalized"
    /\ UNCHANGED <<envVars, codecVars, clockVars, written_proxies_this_run, fetchVars, testVars, progVars,
                   histVars, previous, given>>

\* Lines 362-365: a file operation raises and the error is logged.  Reading
\* raised (the file may be missing) and the file is as it was, or writing raised
\* and the file, truncated by open, holds the lines written until then.
FinalizeFails ==
    /\ phase = "finalizing"
    /\ \E new_lines \in {sort_and_finalize(artifact)} :
          \/ artifact' = artifact
          \/ \E n \in 0..(Len(new_lines) - 1) : artifact' = SubSeq(new_lines, 1, n)
    /\ io_errors' = io_errors \cup {"finalize"}
    /\ output_file_lock' = lock_release(output_file_lock, 0)
    /\ phase' = "finalized"
    /\ UNCHANGED <<envVars, codecVars, clockVars, written_proxies_this_run, fetchVars, testVars,
                   progVars, appended, requests, outcome, working_keys, finVars>>

\* Lines 400-411: the summary of the cycle.
Summary ==
    /\ phase = "finalized"
    /\ phase' = "done"
    /\ UNCHANGED <<envVars, codecVars, clockVars, storeVars, fetchVars, testVars, progVars, histVars, finVars>>

\* The steps of the fetch tasks, and those of the test tasks.
NextFetch ==
    \/ \E s \in DOMAIN fpc : FetchStart(s)
    \/ \E s \in DOMAIN fpc : FetchStatusOk(s)
    \/ \E s \in DOMAIN fpc : FetchFails(s)
    \/ \E s \in DOMAIN fpc : FetchBody(s)

NextTest ==
    \/ \E i \in Tasks : TestStart(i)
    \/ \E i \in Tasks : TestHttpResponse(i)
    \/ \E i \in Tasks : TestHttpsResponse(i)
    \/ \E i \in Tasks : TestGoogleResponse(i)
    \/ \E i \in Tasks : TestUpdate(i)
    \/ \E i \in Tasks : TestUpdating(i)
    \/ \E i \in Tasks : TestDisplay(i)
    \/ \E i \in Tasks : TestAppend(i)
    \/ \E i \in Tasks : TestAppendWrite(i)
    \/ \E i \in Tasks : TestAppendFails(i)
    \/ \E i \in Tasks : TestReturn(i)
    \/ BatchReturn

Next ==
    \/ Clear \/ ClearFails \/ LoadSources
    \/ NextFetch
    \/ FetchAllReturn \/ StartBatch
    \/ NextTest
    \/ FinalizeAcquire \/ FinalizeRewrite \/ FinalizeFails \/ Summary

\* One cycle of run_cycle.
Spec == Init /\ [][Next]_vars

\* main() has entered the ProxyTester, the probe has failed in one of its ways,
\* and there is no output file yet.
InitProbeFailed ==
    /\ InitCommon
    /\ NoBatch
    /\ NoReporter
    /\ \E how \in ProbeOutcomes \ {"origin"} : Probed(how)
    /\ phase = "start"
    /\ network = PlainNetwork
    /\ now = Epoch
    /\ proxy_str = <<>>
    /\ fetched = {}
    /\ artifact = <<>> /\ written_proxies_this_run = {}
    /\ previous = artifact

\* The cycle after a failed probe, when every request ends and the event loop
\* runs what is ready.
SpecProbeFailedFair == InitProbeFailed /\ [][Next]_vars /\ WF_vars(Next)

(***************************************************************************)
(* test_proxies_batch on its own                                           *)
(***************************************************************************)

\* The store after clear, and no fetch under way.
InitTesting ==
    /\ InitCommon
    /\ phase = "test"
    /\ now = Epoch
    /\ proxy_str = <<>>
    /\ fetched = {}
    /\ artifact = <<>> /\ written_proxies_this_run = {} /\ previous = <<>>

\* One candidate, behind a proxy that may behave in any way.
InitTest ==
    /\ InitTesting
    /\ \E how \in ProbeOutcomes : Probed(how)
    /\ network = FullNetwork
    /\ BatchCalled(<<KeyCanonical>>)
    /\ NoReporter \/ ProgressReporter(1)

SpecTest == InitTest /\ [][NextTest]_vars

\* A list of candidates that may name a key more than once.
InitBatch ==
    /\ InitTesting
    /\ NotProbed
    /\ network = PlainNetwork
    /\ \E n \in 1..MaxBatch : \E list \in [1..n -> {KeyCanonical, KeyOther}] :
          /\ BatchCalled(tuple(list))
          /\ NoReporter \/ ProgressReporter(n)

SpecBatch == InitBatch /\ [][NextTest]_vars

\* run_cycle's call: a reporter, and a list that names KeyCanonical some times
\* and then KeyOther.
InitBatchReported ==
    /\ InitTesting
    /\ NotProbed
    /\ network = PlainNetwork
    /\ \E n \in 1..MaxBatch : \E m \in 0..n :
          /\ BatchCalled(tuple([i \in 1..n |-> IF i <= m THEN KeyCanonical ELSE KeyOther]))
          /\ ProgressReporter(n)

\* The batch when every request ends, with an answer or a timeout, and the event
\* loop runs a task that is ready.
SpecBatchFair == InitBatchReported /\ [][NextTest]_vars /\ WF_vars(NextTest)

(***************************************************************************)
(* run_cycle from the return of fetch_all_proxy_lists to the return of     *)
(* test_proxies_batch, while the clock advances                            *)
(***************************************************************************)

\* fetch_all_proxy_lists has returned one or two candidates.
InitProgress ==
    /\ InitCommon
    /\ NoBatch
    /\ NoReporter
    /\ NotProbed
    /\ network = PlainNetwork
    /\ now = Epoch
    /\ phase = "fetched"
    /\ fetched \in {{KeyCanonical}, {KeyCanonical, KeyOther}}
    /\ artifact = <<>> /\ written_proxies_this_run = {} /\ previous = <<>>
    /\ proxy_str = <<>>

\* time.time() reads one more.
Tick ==
    /\ phase = "test"
    /\ now < Epoch + MaxTime
    /\ now' = now + 1
    /\ UNCHANGED <<phase, envVars, codecVars, start_time, last_update_time, reports, storeVars,
                   fetchVars, testVars, progVars, histVars, finVars>>

NextProgress == StartBatch \/ NextTest \/ Tick

SpecProgress == InitProgress /\ [][NextProgress]_vars

(***************************************************************************)
(* parse_proxy_url on its own, on strings a.b.c.d:p of decimal numerals    *)
(***************************************************************************)

\* The numerals an octet is drawn from, and those a port is drawn from.
OctetNumerals == {<<"0">>, <<"7">>, <<"0", "7">>, <<"2", "5", "5">>, <<"2", "5", "6">>,
                  <<"0", "0", "0", "7">>, <<"1", "0", "0", "0">>}
PortNumerals == {<<"0">>, <<"1">>, <<"0", "8", "0">>, <<"6", "5", "5", "3", "5">>,
                 <<"6", "5", "5", "3", "6">>, <<"0", "0", "0", "8", "0">>,
                 <<"0", "0", "0", "0", "8", "0">>, <<"1", "0", "0", "0", "0", "0">>}

\* f"{a}.{b}.{c}.{d}:{p}"
ip_port(a, b, c, d, p) == a \o <<".">> \o b \o <<".">> \o c \o <<".">> \o d \o <<":">> \o p

InitCodec ==
    /\ InitCommon
    /\ NoBatch
    /\ NoReporter
    /\ NotProbed
    /\ network = PlainNetwork
    /\ now = Epoch
    /\ phase = "parse"
    /\ fetched = {}
    /\ artifact = <<>> /\ written_proxies_this_run = {} /\ previous = <<>>
    /\ \E a, d \in OctetNumerals, b \in {<<"2">>, <<"2", "5", "6">>}, p \in PortNumerals :
          proxy_str = ip_port(a, b, <<"3">>, d, p)

\* One call of parse_proxy_url.
Parse ==
    /\ phase = "parse"
    /\ parsed' = parse_proxy_url(proxy_str)
    /\ phase' = "parsed"
    /\ UNCHANGED <<envVars, proxy_str, clockVars, storeVars, fetchVars, testVars, progVars,
                   histVars, finVars>>

SpecCodec == InitCodec /\ [][Parse]_vars

(***************************************************************************)
(* ProgressReporter.display_progress on its own                            *)
(***************************************************************************)

\* A reporter after some updates, at some reading of the clock; the clock may
\* have been set back since the reporter was created.
InitReporter ==
    /\ InitCommon
    /\ NoBatch
    /\ NotProbed
    /\ network = PlainNetwork
    /\ phase = "report"
    /\ proxy_str = <<>>
    /\ fetched = {}
    /\ artifact = <<>> /\ written_proxies_this_run = {} /\ previous = <<>>
    /\ has_reporter = TRUE
    /\ total_proxies \in 0..MaxTotal
    /\ tested_count \in 0..total_proxies
    /\ working_count \in 0..tested_count
    /\ dead_count = tested_count - working_count
    /\ start_time \in {Epoch, Epoch + 1}
    /\ now \in Epoch..(Epoch + MaxTime + 1)
    /\ last_update_time \in {0, start_time}

\* One call of display_progress.
Display ==
    /\ phase = "report"
    /\ display_progress
    /\ phase' = "reported"
    /\ UNCHANGED <<envVars, codecVars, storeVars, fetchVars, testVars, progVars, histVars, finVars>>

SpecReporter == InitReporter /\ [][Display]_vars

(***************************************************************************)
(* _sort_and_finalize_proxies_file on its own, the file system not failing *)
(***************************************************************************)

\* The lines the artifact may hold when finalize is called.
FileLines == {KeyCanonical, KeyZeroPort, KeyPadded, KeyHostname, KeyOther,
              LineBadOctet, LinePortZero, LineUrl, LineBlank}

InitFinalize ==
    /\ InitCommon
    /\ NoBatch
    /\ NoReporter
    /\ NotProbed
    /\ network = PlainNetwork
    /\ now = Epoch
    /\ proxy_str = <<>>
    /\ fetched = {}
    /\ phase = "finalize"
    /\ written_proxies_this_run = {}
    /\ \E n \in 0..MaxLines : \E lines \in [1..n -> FileLines] : artifact = tuple(lines)
    /\ previous = artifact

\* finalize is called once more.
FinalizeAgain ==
    /\ phase = "finalized"
    /\ runs < MaxRuns
    /\ phase' = "finalize"
    /\ UNCHANGED <<envVars, codecVars, clockVars, storeVars, fetchVars, testVars, progVars, histVars, finVars>>

NextFinalize == FinalizeAcquire \/ FinalizeRewrite \/ FinalizeAgain

SpecFinalize == InitFinalize /\ [][NextFinalize]_vars

(***************************************************************************)
(* Properties                                                              *)
(***************************************************************************)

\* The test task i is past line 281: its result dict is the one it returns.
Decided(i) == tpc[i] \in {"update", "updating", "display", "append", "appending", "return"}

Validates(line) == parse_proxy_url(line) # None

Ascending(lines) == \A i, j \in 1..Len(lines) : i < j => StrLess(lines[i], lines[j])

\* C1: in every outcome test_proxy_connectivity returns, working is true exactly
\* when stage 1 (the HTTP echo) and stage 3 (connectivity) both succeeded,
\* however stage 2 (HTTPS) ended.
C1_WorkingIffStages1And3 ==
    \A i \in Tasks :
        Decided(i) => (result[i].working <=> (outcome[i].s1 = "ok" /\ outcome[i].s3 = "ok"))

\* A returned outcome that is working although stage 2 answered another status.
C1_Witness ==
    \E i \in Tasks :
        /\ tpc[i] = "return"
        /\ outcome[i] = [s1 |-> "ok", s2 |-> "status", s3 |-> "ok"]
        /\ result[i].working

\* C2: between clear and finalize, whatever the interleaving of the test tasks,
\* no key is written to the artifact more than once.
C2_OneWritePerKey ==
    \A i, j \in 1..Len(artifact) : artifact[i] = artifact[j] => i = j

\* Two tasks for the same key have both returned a working outcome, no append
\* raised, and the key is on one line.
C2_Witness ==
    /\ "append" \notin io_errors
    /\ \E i, j \in Tasks :
          /\ i # j /\ batch[i] = batch[j]
          /\ raw_results[i] = "working" /\ raw_results[j] = "working"
          /\ Cardinality({k \in 1..Len(artifact) : artifact[k] = batch[i]}) = 1

\* C3, as stated: after finalize the artifact holds exactly the distinct input
\* lines that validate, once each, ascending, none blank.
C3_ExactlyValidInputLines ==
    phase = "finalized" =>
        /\ Range(artifact) = {line \in Range(given) : Validates(line)}
        /\ Ascending(artifact)
        /\ \A i \in 1..Len(artifact) : artifact[i] # <<>>

\* C3, amended: after a finalize that no file error interrupts, the artifact
\* holds exactly the input lines that validate, with the whitespace around them
\* trimmed, once each, ascending, none blank.
C3_ExactlyTrimmedValidLines ==
    phase = "finalized" =>
        /\ Range(artifact) = {strip(line) : line \in {l \in Range(given) : Validates(l)}}
        /\ Ascending(artifact)
        /\ \A i \in 1..Len(artifact) : artifact[i] # <<>>

\* finalize ran on a key, the same key behind a space, and a blank line.
C3_Witness ==
    /\ phase = "finalized"
    /\ Range(given) = {KeyPadded, KeyCanonical, LineBlank}
    /\ artifact = <<KeyCanonical>>

\* C4: after finalize every line of the artifact is the canonical host:port key
\* of what it decodes to, and no two lines decode to the same host and port.
C4_LinesAreCanonicalKeys ==
    (phase \in {"finalized", "done"} /\ "finalize" \notin io_errors) =>
        /\ \A i \in 1..Len(artifact) :
              \E p \in {parse_proxy_url(artifact[i])} : p # None /\ KeyOf(p) = artifact[i]
        /\ \A i, j \in 1..Len(artifact) :
              i # j => \E p \in {parse_proxy_url(artifact[i])}, q \in {parse_proxy_url(artifact[j])} :
                           p = None \/ q = None \/ <<p[1], p[2]>> # <<q[1], q[2]>>

\* C5: running finalize twice in a row leaves the artifact as the first run
\* left it.
C5_FinalizeIdempotent ==
    (phase = "finalized" /\ runs = 2) => artifact = after_first

\* The second run has ended on the output of a first run that changed the file.
C5_Witness ==
    /\ phase = "finalized" /\ runs = 2
    /\ after_first # given /\ after_first # <<>>

\* C6: after a cycle that reached finalize with no file error, the lines of the
\* artifact are exactly the keys of the working outcomes, and there are as many
\* lines as the working count reported.
C6_ArtifactIsWorkingKeys ==
    (phase \in {"finalized", "done"} /\ io_errors = {}) =>
        /\ Range(artifact) = working_keys
        /\ Len(artifact) = working_count

FetchInFlight == {s \in DOMAIN fpc : fpc[s] \in {"get", "body"}}
TestInFlight  == {i \in Tasks : tpc[i] \notin {"new", "done"}}

\* C8: no more fetch tasks than max_concurrent_fetches and no more test tasks
\* than max_concurrent_tests are in flight; a task holds a permit from before its
\* first request to its exit, failed or not, and no permit is lost.
C8_SemaphoresBoundAndConserved ==
    /\ Cardinality(FetchInFlight) <= max_concurrent_fetches
    /\ Cardinality(TestInFlight) <= max_concurrent_tests
    /\ fsem + Cardinality(FetchInFlight) = max_concurrent_fetches
    /\ tsem + Cardinality(TestInFlight) = max_concurrent_tests
    /\ \A i \in Tasks : requests[i] # <<>> => i \in TestInFlight

\* Every fetch permit is taken while a task that failed has left and another waits.
C8_Witness ==
    /\ fsem = 0
    /\ \E s \in DOMAIN fpc : fpc[s] = "done" /\ fbody[s] = <<>>
    /\ Cardinality(FetchInFlight) = max_concurrent_fetches

\* What the source s contributed: the keys of its body, nothing when it failed.
contribution(s) == IF fbody[s] = <<>> THEN {} ELSE proxies_of_content(fbody[s][1])

\* C9: a source whose fetch failed contributes the empty set, every other fetch
\* task still runs to its end, and fetch_all_proxy_lists returns the union of
\* what the sources contributed.
C9_FetchFailureIsLocal ==
    /\ \A s \in DOMAIN fpc : (fpc[s] = "done" /\ fbody[s] = <<>>) => fret[s] = {}
    /\ phase = "fetched" =>
          /\ \A s \in DOMAIN fpc : fpc[s] = "done"
          /\ fetched = UNION {contribution(s) : s \in DOMAIN fpc}

\* fetch_all_proxy_lists has returned keys although one source failed.
C9_Witness ==
    /\ phase = "fetched"
    /\ \E s \in DOMAIN fpc : fbody[s] = <<>>
    /\ \E s \in DOMAIN fpc : fbody[s] # <<>> /\ fret[s] # {}
    /\ fetched # {}

\* C10: the stages are requested in order; stages 2 and 3 are requested only
\* after stage 1 succeeded; when stage 1 failed, whatever the reason, no other
\* request is made, the outcome holds an error string and working is false.
C10_StagesOrderedAndShortCircuit ==
    \A i \in Tasks :
        /\ requests[i] \in {<<>>, <<1>>, <<1, 2>>, <<1, 2, 3>>}
        /\ Len(requests[i]) >= 2 => outcome[i].s1 = "ok"
        /\ Len(requests[i]) >= 3 => outcome[i].s2 # "none"
        /\ (Decided(i) /\ outcome[i].s1 # "ok") =>
              /\ requests[i] = <<1>>
              /\ Len(result[i].errors) >= 1
              /\ ~result[i].working

\* A task returns after a stage 1 answer whose body did not parse.
C10_Witness ==
    \E i \in Tasks :
        /\ tpc[i] = "return"
        /\ outcome[i].s1 = "bad_json"
        /\ requests[i] = <<1>>
        /\ result[i].errors = <<"HTTP JSON Error">>
        /\ ~result[i].working

\* C11: in every returned outcome the anonymity differs from "unknown" only when
\* stage 1 succeeded; after any failure of stage 1, a 200 with a malformed body
\* included, it is still "unknown".
C11_AnonymityOnlyIfHttpOk ==
    \A i \in Tasks :
        Decided(i) =>
            /\ result[i].anonymity # "unknown" => result[i].http_working
            /\ outcome[i].s1 # "ok" => result[i].anonymity = "unknown"

\* The machine's address is known and a task returns after a 200 whose body did
\* not parse: its anonymity is "unknown".
C11_Witness ==
    /\ machine_ip
    /\ \E i \in Tasks :
          /\ tpc[i] = "return"
          /\ outcome[i].s1 = "bad_json"
          /\ result[i].has_latency
          /\ result[i].anonymity = "unknown"

\* The cycle has ended: run_cycle returned early or emitted its summary.
CycleOver == phase \in {"returned", "done"}

\* C12: when the own-IP probe failed (another status, an exception, no origin),
\* the cycle still runs to its end, every outcome of the cycle has anonymity
\* "unknown" whatever the stages did, and working is the same function of the
\* stage results as when the probe succeeded.
C12_ProbeIsBestEffort ==
    /\ [](probe # "origin" =>
             \A i \in Tasks :
                 /\ result[i].anonymity = "unknown"
                 /\ Decided(i) =>
                        (result[i].working <=> (outcome[i].s1 = "ok" /\ outcome[i].s3 = "ok")))
    /\ (probe # "origin") => <>CycleOver

\* The probe raised, and a task returns a working outcome of unknown anonymity.
C12_Witness ==
    /\ probe = "exception"
    /\ \E i \in Tasks :
          /\ tpc[i] = "return"
          /\ outcome[i].s1 = "ok" /\ outcome[i].s3 = "ok"
          /\ result[i].working
          /\ result[i].anonymity = "unknown"

\* The host and port a key names, None when the codec rejects it.
endpoint(key) == let(parse_proxy_url(key), LAMBDA p : IF p = None THEN None ELSE <<p[1], p[2]>>)

\* C13: what fetch_all_proxy_lists returns is the union of what the sources
\* delivered, whatever the order in which they completed, and an endpoint that
\* two sources delivered in two formats is in it once.
C13_MergeIsUnionOnePerEndpoint ==
    phase = "fetched" =>
        /\ fetched = UNION {contribution(s) : s \in DOMAIN fpc}
        /\ \A k1, k2 \in fetched :
              (endpoint(k1) # None /\ endpoint(k1) = endpoint(k2)) => k1 = k2

\* What the clock had advanced by, since the reporter was created, at a summary.
elapsed_at(r) == r.at - start_time

\* (total - tested) / throughput, the throughput being tested / elapsed.
ClaimedEta(r) == Fraction((r.total - r.tested) * elapsed_at(r), r.tested)

NumeralsOf(s) ==
    let(split(s, ":"), LAMBDA parts : split(parts[1], ".") \o <<parts[2]>>)

InRange(numerals) ==
    /\ \A k \in 1..4 : int(numerals[k]) <= 255
    /\ 1 <= int(numerals[5]) /\ int(numerals[5]) <= 65535

\* C15, as stated: a string a.b.c.d:p of decimal numbers is matched, with the
\* scheme http, if and only if a, b, c, d are in 0..255 and p is in 1..65535.
C15_MatchIffInRange ==
    phase = "parsed" =>
        ((parsed # None /\ parsed[3] = HTTP) <=> InRange(NumeralsOf(proxy_str)))

\* C15, amended: it is matched, with the scheme http, if and only if moreover
\* a, b, c, d have at most three digits and p at most five; the match holds the
\* address as written and the port without its leading zeros.
C15_MatchIffInRangeAndShort ==
    phase = "parsed" =>
        \E numerals \in {NumeralsOf(proxy_str)} :
            /\ (parsed # None) <=>
                   /\ InRange(numerals)
                   /\ \A k \in 1..4 : Len(numerals[k]) <= 3
                   /\ Len(numerals[5]) <= 5
            /\ parsed # None =>
                   /\ parsed[3] = HTTP
                   /\ parsed[1] = SubSeq(proxy_str, 1, Len(parsed[1]))
                   /\ proxy_str[Len(parsed[1]) + 1] = ":"
                   /\ parsed[2] = str(int(numerals[5]))

\* A string whose numbers are all in range, the first octet written with four
\* digits, was not matched.
C15_Witness ==
    /\ phase = "parsed"
    /\ parsed = None
    /\ InRange(NumeralsOf(proxy_str))
    /\ Len(NumeralsOf(proxy_str)[1]) = 4

\* The tasks that returned a working outcome to gather.
WorkingTasks == {i \in Tasks : raw_results[i] = "working"}

\* C16: whatever the order in which the test tasks ran and completed, once they
\* are all done the counters are those of the candidates' outcomes, and after
\* finalize the artifact is the one finalize makes of the working candidates'
\* keys, when no file operation failed.
C16_ConsumersCommute ==
    /\ phase \in {"finalize", "finalizing", "finalized", "done"} =>
          (has_reporter =>
              /\ tested_count = Len(batch)
              /\ working_count = Cardinality(WorkingTasks)
              /\ dead_count = Len(batch) - Cardinality(WorkingTasks))
    /\ (phase \in {"finalized", "done"} /\ io_errors = {}) =>
          artifact = sort_and_finalize(sorted({batch[i] : i \in WorkingTasks}))

\* The cycle is over, no file operation failed, and two working proxies had been
\* appended in another order than the one finalize left them in.
C16_Witness ==
    /\ phase = "done" /\ io_errors = {}
    /\ working_count >= 2
    /\ Len(given) >= 2 /\ Len(artifact) >= 2
    /\ given # artifact

\* The test tasks that await the answer to a request.
AwaitingNetwork == {i \in Tasks : tpc[i] \in {"http", "https", "google"}}

\* The callers that ask for a lock in this state.
WantsProgressLock(i) == tpc[i] = "update" /\ has_reporter
WantsOutputLock(i) ==
    /\ tpc[i] = "append"
    /\ result[i].working /\ ~already_written(batch[i], written_proxies_this_run)

\* C17: nobody holds the progress lock and the output lock together, or holds
\* one while asking for the other; no lock is held by a task that awaits the
\* answer to a request: a lock is held only by the test task that runs, between
\* two of its steps with no await, or by finalize; a lock that is asked for is
\* free, so that nobody waits for a lock; and the cycle can always take a step
\* until it has ended.
C17_LocksNeverNested ==
    /\ progress_lock \cap output_file_lock = {}
    /\ Cardinality(progress_lock) <= 1 /\ Cardinality(output_file_lock) <= 1
    /\ \A i \in progress_lock : i \in Tasks /\ tpc[i] = "updating"
    /\ \A i \in output_file_lock :
          IF i = 0 THEN phase = "finalizing" ELSE i \in Tasks /\ tpc[i] = "appending"
    /\ \A i \in AwaitingNetwork : i \notin progress_lock /\ i \notin output_file_lock
    /\ (progress_lock # {} \/ output_file_lock # {}) =>
          /\ FetchInFlight = {}
          /\ running # 0 \/ phase = "finalizing"
    /\ \A i \in Tasks :
          /\ (running = i /\ WantsProgressLock(i)) => progress_lock = {}
          /\ (running = i /\ WantsOutputLock(i)) => output_file_lock = {}
    /\ phase = "finalize" => output_file_lock = {}
    /\ CycleOver \/ ENABLED Next

\* A task holds the output lock while another awaits the answer to a request.
C17_Witness ==
    /\ \E i \in Tasks : i \in output_file_lock
    /\ AwaitingNetwork # {}
    /\ progress_lock = {}

\* The phases of run_cycle from the call of finalize on.
FinalizePhases == {"finalize", "finalizing", "finalized", "done"}

\* C18: a fetch task exists only once clear has ended; a test task exists only
\* once every fetch task is done and fetch_all_proxy_lists has returned;
\* finalize is called only once every test task is done, and from then on no
\* key is appended: the file is what finalize read and then what it wrote; the
\* summary comes only after finalize has ended.
C18_PhasesAreOrdered ==
    /\ phase = "start" => fpc = <<>> /\ Tasks = {} /\ runs = 0
    /\ phase \in {"load", "fetch"} => Tasks = {} /\ runs = 0
    /\ FetchInFlight # {} => phase = "fetch"
    /\ phase \in {"fetched", "test"} \cup FinalizePhases =>
          \A s \in DOMAIN fpc : fpc[s] = "done"
    /\ TestInFlight # {} => phase = "test"
    /\ phase = "test" => runs = 0 /\ output_file_lock \cap {0} = {}
    /\ phase \in FinalizePhases =>
          /\ \A i \in Tasks : tpc[i] = "done"
          /\ running = 0
          /\ \A i \in Tasks : i \notin output_file_lock
    /\ phase = "finalizing" => artifact = given
    /\ (phase \in {"finalized", "done"} /\ "finalize" \notin io_errors) =>
          artifact = after_first
    /\ phase = "done" => (runs >= 1 \/ "finalize" \in io_errors) /\ output_file_lock = {}

\* The summary has been emitted after a batch of three tasks and a finalize that
\* changed the file.
C18_Witness ==
    /\ phase = "done"
    /\ Len(batch) = 3
    /\ runs = 1
    /\ given # artifact

\* The tasks that are past ProgressReporter.update.
Updated == {i \in Tasks : tpc[i] \in {"display", "append", "appending", "return", "done"}}

\* C19: when every request ends, the batch ends; update has then been called
\* once for each candidate and gather holds one outcome for each candidate; a
\* task whose requests timed out leaves the other tasks to their own outcomes.
C19_BatchTerminatesOncePerCandidate ==
    /\ [](has_reporter => tested_count = Cardinality(Updated))
    /\ [](\A i \in Tasks : (tpc[i] = "done") <=> (raw_results[i] # "none"))
    /\ [](phase = "finalize" =>
             /\ Len(raw_results) = Len(batch)
             /\ \A i \in Tasks : raw_results[i] \in {"working", "dead"}
             /\ has_reporter =>
                   /\ tested_count = total_proxies
                   /\ working_count + dead_count = total_proxies)
    /\ (phase = "test") ~> (phase = "finalize")

\* The batch of three candidates has ended; one task's request timed out and
\* another task returned a working outcome.
C19_Witness ==
    /\ phase = "finalize"
    /\ Len(batch) = 3
    /\ tested_count = 3
    /\ \E i, j \in Tasks : raw_results[i] = "dead" /\ raw_results[j] = "working"

\* The summaries logged sooner than one interval after the summary before them.
EarlySummaries ==
    {k \in 2..Len(reports) :
        reports[k].at - reports[k - 1].at < progress_update_interval_seconds}

\* C20: over the cycle, a summary is logged sooner than one interval after the
\* summary before it only at completion (tested = total), and at most once.
C20_SummariesAreRateLimited ==
    /\ \A k \in EarlySummaries : reports[k].tested = reports[k].total
    /\ Cardinality(EarlySummaries) <= 1

\* The tasks past ProgressReporter.update whose outcome was working: the result
\* dict while the task runs, what gather collected once it has returned.
UpdatedWorking ==
    {i \in Updated : IF tpc[i] = "done" THEN raw_results[i] = "working"
                                         ELSE result[i].working}

\* C21: while a cycle has a ProgressReporter, tested = working + dead and
\* 0 <= tested <= total, total being the number of candidates of the batch; no
\* update is lost in any interleaving of the tasks (tested counts the tasks past
\* update, working those of them whose outcome was working); and a step that
\* changes a counter of the reporter adds one to tested and one to exactly one
\* of working and dead.
C21_CountersConsistent ==
    /\ [](has_reporter =>
             /\ tested_count = working_count + dead_count
             /\ 0 <= tested_count /\ tested_count <= total_proxies
             /\ total_proxies = Len(batch)
             /\ tested_count = Cardinality(Updated)
             /\ working_count = Cardinality(UpdatedWorking))
    /\ [][(has_reporter /\ <<tested_count, working_count, dead_count>>' #
                           <<tested_count, working_count, dead_count>>) =>
             /\ tested_count' = tested_count + 1
             /\ \/ working_count' = working_count + 1 /\ dead_count' = dead_count
                \/ working_count' = working_count /\ dead_count' = dead_count + 1]_vars

\* Three candidates were fetched and tested at once, updates of working and of
\* dead outcomes interleaved, and a third task has not yet called update.
C21_Witness ==
    /\ phase = "test"
    /\ has_reporter
    /\ Len(batch) = 3
    /\ tested_count = 2 /\ working_count = 1 /\ dead_count = 1
    /\ \E i \in Tasks : tpc[i] \in {"http", "https", "google", "update"}

====
